---- MODULE Spec2Model ----
(***************************************************************************)
(* The video-generation job pipeline of backend/app/videoGen:              *)
(* router._run_generation (the background worker of one job) with the      *)
(* functions it calls: video_agent.parse_scene_plan / generate_video,      *)
(* output_manager.render_manim_scenes / render_remotion_scenes /           *)
(* merge_clips, tts_generator.generate_scene_narrations and                *)
(* database.save_video_job.                                                *)
(*                                                                         *)
(* A Python None is the empty sequence and a value x that may be None is   *)
(* the one-element sequence <<x>>.  A scene dict is identified by its      *)
(* position in result["scenes"]; manim_scenes, remotion_scenes and         *)
(* failed_manim hold positions, because in the code they hold references   *)
(* to the very same dict objects.                                          *)
(***************************************************************************)
EXTENDS Integers, Sequences, FiniteSets, TLC

\* Largest number of scene headers in a planning answer; header numbers are
\* drawn from 1..MaxScenes.
MaxScenes == 2

\* Largest number of calls into the environment that go wrong in one run of
\* the worker: a save_state that does not write, an oracle call that raises
\* or answers with no code, a filesystem call that raises, a call of
\* render_manim_scenes, render_remotion_scenes, generate_scene_narrations or
\* merge_clips in which some subprocess fails.
MaxFaults == 1

\* Jobs that create their output directory, minutes of the wall clock they
\* do it in, and the longest topic (in characters) they are started with.
MaxJobs == 2
MaxMinute == 1
MaxTopicLen == 2

VARIABLES
    pc,              \* position of the worker in _run_generation
    job,             \* the worker's job dict
    store,           \* the video_jobs row of this job (None: no row yet)
    raised,          \* the exception in flight / handled (None: none)
    result,          \* agent.generate_video's return value
    files,           \* the job's output directory: scene.py, remotion/*.tsx
    rendered_clips,  \* dict scene index -> clip path (its key set)
    failed_manim,    \* second component of render_manim_scenes' result
    fb,              \* loop position in `for ... in failed_manim`
    narration,       \* positions of the scenes whose narration is non-empty
    narration_audio, \* dict scene index -> wav path (its key set)
    merge,           \* what merge_clips did: ordered clips, concat list, result
    hist,            \* per scene: the render attempts made and their success
    faults,          \* number of environment faults so far
    clock,           \* the minute datetime.now() falls in
    output_dirs,     \* per job: its topic and the directory created for it
    project_src,     \* REMOTION_PROJECT/src: whose Root.tsx, MyComp.tsx it holds
    renderers,       \* per job: its call of render_remotion_scenes
    system_prompt,   \* the module global _system_prompt
    lock,            \* the holder of the module global _lock
    callers          \* per thread: its call of _get_system_prompt

\* The state of the worker of one job.
worker == <<pc, job, store, raised, result, files, rendered_clips,
            failed_manim, fb, narration, narration_audio, merge, hist, faults>>

\* The output directories of all jobs.
directories == <<clock, output_dirs>>

\* The one Remotion project all jobs render in.
remotion_project == <<project_src, renderers>>

\* The cache of the system prompt.
prompt_cache == <<system_prompt, lock, callers>>

\* What the workers of all jobs share.
shared == <<directories, remotion_project, prompt_cache>>

vars == <<worker, shared>>

None == <<>>
Some(x) == <<x>>

----------------------------------------------------------------------------
(* video_agent.py *)

EngineTags == {"MANIM", "REMOTION"}

\* The tags a header may carry: the pattern is matched with re.IGNORECASE,
\* anything else in the brackets does not match.
HeaderTags == {"MANIM", "REMOTION", "manim", "remotion", "NONE"}

HeaderNumbers == 1 .. MaxScenes

\* One block of re.split(r"(?=###\s*Scene\s*\d+)", plan_text).
Blocks == [num : HeaderNumbers, tag : HeaderTags]

\* str.upper() on the matched tag.
Upper(tag) ==
    CASE tag = "manim" -> "MANIM"
      [] tag = "remotion" -> "REMOTION"
      [] OTHER -> tag

\* parse_scene_plan: one scene per block whose header matches, in text order,
\* index = int(match.group(1)), engine = match.group(3).upper().
RECURSIVE parse_scene_plan(_)
parse_scene_plan(blocks) ==
    IF blocks = <<>> THEN <<>>
    ELSE LET b == Head(blocks)
             rest == parse_scene_plan(Tail(blocks))
         IN  IF Upper(b.tag) \in EngineTags
             THEN <<[index |-> b.num, engine |-> Upper(b.tag)]>> \o rest
             ELSE rest

\* [s for s in scenes if s["engine"] == e], as positions.
RECURSIVE PositionsWith(_, _, _)
PositionsWith(scenes, e, k) ==
    IF k > Len(scenes) THEN <<>>
    ELSE (IF scenes[k].engine = e THEN <<k>> ELSE <<>>)
         \o PositionsWith(scenes, e, k + 1)

\* VideoAgent.generate_video: the parsed scenes, their split by engine and
\* the generated sources.  manim_code is None without Manim scenes and may be
\* the empty string otherwise (code: TRUE iff truthy); root_tsx is the
\* deterministic _default_root_tsx(remotion_scenes), comp_tsx may be empty.
generate_video(blocks, codeTruthy, compTruthy) ==
    LET scenes == parse_scene_plan(blocks)
        ms == PositionsWith(scenes, "MANIM", 1)
        rs == PositionsWith(scenes, "REMOTION", 1)
    IN  [scenes |-> scenes,
         manim_scenes |-> ms,
         remotion_scenes |-> rs,
         manim_code |-> (ms # <<>> /\ codeTruthy),
         root_tsx |-> (rs # <<>>),
         comp_tsx |-> (rs # <<>> /\ compTruthy)]

PlanAnswers == UNION {[1 .. n -> Blocks] : n \in 0 .. MaxScenes}

----------------------------------------------------------------------------
(* output_manager.py *)

\* What one `manim` subprocess.run can come to (lines 134-176).
ManimOutcomes == {"ok", "no_mp4", "nonzero", "timeout", "not_installed"}

\* What one `npx remotion render` subprocess.run can come to (lines 234-264):
\* ok: exit 0 and the clip exists; ok_default: exit 0, the clip was written
\* to out/<comp_id>.mp4 instead; stale_default: exit code non-zero (or no
\* output) while a file out/<comp_id>.mp4 is present; fail: neither.
RemotionOutcomes ==
    {"ok", "ok_default", "stale_default", "fail", "timeout", "not_installed"}

\* The outcomes after which the renderer stores rendered[scene_idx].
ManimRendered == {"ok"}
RemotionRendered == {"ok", "ok_default", "stale_default"}

\* The outcomes in which the scene's own subprocess produced its clip.
OwnRender == {"ok", "ok_default"}

\* save_remotion_files: Root.tsx registers the composition ids `ids`
\* (comp_id = f"Scene{index:02d}", so an id is a scene index), MyComp.tsx
\* holds the components generated for the scenes at positions `comps`.
save_remotion_files(ids, comps) == Some([root |-> ids, comp |-> comps])

\* _default_root_tsx(scenes): one <Composition id=comp_id> per scene.
default_root_ids(scenes, ps) == {scenes[ps[k]].index : k \in 1 .. Len(ps)}

SeqRange(s) == {s[k] : k \in 1 .. Len(s)}

\* remaining = [s for s in manim_scenes if s["index"] > scene_idx]
Remaining(scenes, ms, scene_idx) ==
    SelectSeq(ms, LAMBDA q : scenes[q].index > scene_idx)

\* The loop of render_manim_scenes from position k of manim_scenes on;
\* acc is (rendered, failed, tried).
RECURSIVE ManimLoop(_, _, _, _, _)
ManimLoop(scenes, ms, out, k, acc) ==
    IF k > Len(ms) THEN acc
    ELSE LET p == ms[k]
             tried == Append(acc.tried, <<p, out[k]>>)
         IN  CASE out[k] \in ManimRendered ->
                    ManimLoop(scenes, ms, out, k + 1,
                              [acc EXCEPT !.rendered = @ \cup {scenes[p].index},
                                          !.tried = tried])
               [] out[k] = "not_installed" ->
                    \* failed gets this scene and the "remaining" ones; break
                    [acc EXCEPT !.failed = Append(@, p)
                                           \o Remaining(scenes, ms, scenes[p].index),
                                !.tried = tried]
               [] OTHER ->
                    ManimLoop(scenes, ms, out, k + 1,
                              [acc EXCEPT !.failed = Append(@, p),
                                          !.tried = tried])

\* render_manim_scenes(output_dir, manim_scenes) -> (rendered, failed).
\* Without scene.py it returns ({}, list(manim_scenes)): a list of scene
\* dicts, not of (scene, error_text) pairs (pairs = FALSE).
render_manim_scenes(scenes, ms, out, scene_py) ==
    IF ~scene_py
    THEN [rendered |-> {}, failed |-> ms, pairs |-> FALSE, tried |-> <<>>]
    ELSE LET r == ManimLoop(scenes, ms, out, 1,
                            [rendered |-> {}, failed |-> <<>>, tried |-> <<>>])
         IN  [rendered |-> r.rendered, failed |-> r.failed, pairs |-> TRUE,
              tried |-> r.tried]

\* The loop of render_remotion_scenes; FileNotFoundError returns at once.
RECURSIVE RemotionLoop(_, _, _, _, _)
RemotionLoop(scenes, rs, out, k, acc) ==
    IF k > Len(rs) THEN acc
    ELSE LET p == rs[k]
             tried == Append(acc.tried, <<p, out[k]>>)
         IN  CASE out[k] \in RemotionRendered ->
                    RemotionLoop(scenes, rs, out, k + 1,
                                 [acc EXCEPT !.rendered = @ \cup {scenes[p].index},
                                             !.tried = tried])
               [] out[k] = "not_installed" -> [acc EXCEPT !.tried = tried]
               [] OTHER ->
                    RemotionLoop(scenes, rs, out, k + 1,
                                 [acc EXCEPT !.tried = tried])

\* render_remotion_scenes(output_dir, remotion_scenes) -> rendered.
\* src: the job's remotion/ directory (None: absent); project: whether
\* REMOTION_PROJECT exists.
render_remotion_scenes(scenes, rs, out, src, project) ==
    IF src = None \/ ~project
    THEN [rendered |-> {}, tried |-> <<>>]
    ELSE RemotionLoop(scenes, rs, out, 1, [rendered |-> {}, tried |-> <<>>])

\* sorted(all_scenes, key=lambda s: s["index"]): a stable sort, as
\* positions.  Insert p behind every element whose index is <= its own.
RECURSIVE InsertByIndex(_, _, _)
InsertByIndex(scenes, sorted, p) ==
    IF sorted = <<>> THEN <<p>>
    ELSE IF scenes[Head(sorted)].index <= scenes[p].index
         THEN <<Head(sorted)>> \o InsertByIndex(scenes, Tail(sorted), p)
         ELSE <<p>> \o sorted

RECURSIVE SortedByIndex(_, _)
SortedByIndex(scenes, n) ==
    IF n = 0 THEN <<>>
    ELSE InsertByIndex(scenes, SortedByIndex(scenes, n - 1), n)

\* ordered_clips / ordered_indices of merge_clips (lines 290-297), as the
\* positions of the scenes whose index is a key of rendered_clips.
OrderedClips(scenes, rendered) ==
    SelectSeq(SortedByIndex(scenes, Len(scenes)),
              LAMBDA p : scenes[p].index \in rendered)

\* The subsequence of s at the places in keep.
RECURSIVE Keep(_, _, _)
Keep(s, keep, k) ==
    IF k > Len(s) THEN <<>>
    ELSE (IF k \in keep THEN <<s[k]>> ELSE <<>>) \o Keep(s, keep, k + 1)

\* merge_clips(output_dir, all_scenes, rendered_clips, narration_audio).
\* normOk: the places of ordered_clips whose normalization succeeds;
\* concatOk: the ffmpeg concat run exits 0 and final_video.mp4 exists.
\* Returns the ordered clips, the lines of concat.txt (None: not written)
\* and whether a path (not None) is returned.
merge_clips(scenes, rendered, audio, normOk, concatOk) ==
    LET ordered == OrderedClips(scenes, rendered)
        normalized == Keep(ordered, normOk, 1)
    IN  IF rendered = {} \/ ordered = <<>>
        THEN [ordered |-> <<>>, concat |-> None, final |-> FALSE]
        ELSE IF Len(ordered) = 1 /\ scenes[ordered[1]].index \notin audio
        THEN [ordered |-> ordered, concat |-> None, final |-> TRUE]
        ELSE IF normalized = <<>>
        THEN [ordered |-> ordered, concat |-> None, final |-> FALSE]
        ELSE [ordered |-> ordered, concat |-> Some(normalized),
              final |-> concatOk]

----------------------------------------------------------------------------
(* database.py and router.py: the job record and save_state *)

\* What one save_state(job) call can come to.  written: save_video_job
\* commits the row; swallowed: save_video_job catches a database error, logs
\* it and returns False, which save_state ignores; raises: save_state itself
\* raises (asyncio.new_event_loop or get_vector_db fails) before any write.
SaveOutcomes == {"written", "swallowed", "raises"}

\* The columns save_video_job writes (INSERT OR REPLACE); there is no
\* scenes column.
Row(j) ==
    [status |-> j.status, output_dir |-> j.output_dir,
     final_video |-> j.final_video, error |-> j.error]

\* The row after save_state(j) came to o.
save_state(st, j, o) == IF o = "written" THEN Some(Row(j)) ELSE st

\* get_status (router.py 376-385): get_video_job selects the row (None: no
\* row, answered with 404) and JobStatus(**row) fills the fields the row
\* does not have with their defaults: scenes is None.
get_status(st) ==
    IF st = None THEN None
    ELSE Some([status |-> st[1].status, scenes |-> None,
               output_dir |-> st[1].output_dir,
               final_video |-> st[1].final_video, error |-> st[1].error])

\* The job dict of lines 108-119.
NewJob ==
    [status |-> "queued", scenes |-> None, output_dir |-> None,
     final_video |-> None, error |-> None]

\* The copies of lines 219-222: new dicts with index, title and engine.
JobScenes(scenes) ==
    [k \in 1 .. Len(scenes) |->
        [index |-> scenes[k].index, engine |-> scenes[k].engine]]

NoResult == generate_video(<<>>, FALSE, FALSE)

NoMerge == [ordered |-> <<>>, concat |-> None, final |-> FALSE]

\* Per scene (position): the Manim and Remotion subprocess attempts made
\* for it, the fallback iterations run for it, and whether a Manim or a
\* Remotion subprocess of its own produced its clip.
NewHist(n) ==
    [k \in 1 .. n |-> [manim |-> 0, remotion |-> 0, fallback |-> 0,
                       manim_ok |-> FALSE, remotion_ok |-> FALSE]]

\* hist after the attempts `tried` (pairs <<position, outcome>>) of engine e.
RECURSIVE Tried(_, _, _)
Tried(h, tried, e) ==
    IF tried = <<>> THEN h
    ELSE LET p == Head(tried)[1]
             o == Head(tried)[2]
             h1 == IF e = "MANIM"
                   THEN [h EXCEPT ![p].manim = @ + 1,
                                  ![p].manim_ok = @ \/ o \in OwnRender]
                   ELSE [h EXCEPT ![p].remotion = @ + 1,
                                  ![p].remotion_ok = @ \/ o \in OwnRender]
         IN  Tried(h1, Tail(tried), e)

\* Root.tsx of src registers the composition id of the scene at position p
\* and MyComp.tsx holds its component.
Registered(scenes, p, src) ==
    scenes[p].index \in src[1].root /\ p \in src[1].comp

\* The outcomes the Remotion toolchain can give for the scene at position p
\* with the sources src copied into the project: it cannot render a
\* composition that Root.tsx does not register (the code's own sanity
\* check, lines 228-232).
RemotionCan(scenes, p, src) ==
    IF Registered(scenes, p, src) THEN RemotionOutcomes
    ELSE RemotionOutcomes \ {"ok", "ok_default"}

\* Fault counts of the environment's answers.
SaveFault(o) == IF o = "written" THEN 0 ELSE 1

ManimFaults(out) == IF \A k \in DOMAIN out : out[k] = "ok" THEN 0 ELSE 1

\* A composition the sources do not register fails without any fault of
\* the toolchain.
RemotionFaults(scenes, ps, out, src) ==
    IF \A k \in DOMAIN out :
          \/ out[k] \in {"ok", "ok_default"}
          \/ out[k] = "fail" /\ ~Registered(scenes, ps[k], src)
    THEN 0 ELSE 1

\* The run stays within its budget of faults.
Fault(n) ==
    /\ faults + n <= MaxFaults
    /\ faults' = faults + n

\* The worker of a job at its start.
WorkerInit ==
    /\ pc = "start"
    /\ job = NewJob
    /\ store = None
    /\ raised = None
    /\ result = NoResult
    /\ files = [scene_py |-> FALSE, remotion |-> None]
    /\ rendered_clips = {}
    /\ failed_manim = [pairs |-> TRUE, items |-> <<>>]
    /\ fb = 0
    /\ narration = {}
    /\ narration_audio = {}
    /\ merge = NoMerge
    /\ hist = <<>>
    /\ faults = 0

\* No job renders in the Remotion project.
ProjectIdle ==
    /\ project_src = [root |-> None, comp |-> None]
    /\ renderers = <<>>

\* No thread calls _get_system_prompt.
PromptIdle ==
    /\ system_prompt = None
    /\ lock = None
    /\ callers = <<>>

\* One job: no other job creates a directory, renders or asks for the
\* system prompt.
Init ==
    /\ WorkerInit
    /\ clock = 0
    /\ output_dirs = <<>>
    /\ ProjectIdle
    /\ PromptIdle

\* save_state(j) comes to o and control passes on to `next`, or to the
\* except clause (line 331) when it raises.
SaveFrom(st, j, o, next) ==
    /\ store' = save_state(st, j, o)
    /\ pc' = IF o = "raises" THEN "except" ELSE next
    /\ raised' = IF o = "raises" THEN Some("save_state") ELSE raised

Save(j, o, next) == SaveFrom(store, j, o, next)

\* An exception of the given kind reaches the except clause.
Raise(kind) ==
    /\ pc' = "except"
    /\ raised' = Some(kind)

\* Lines 108-120: the job dict and the first save_state, which is outside
\* the try block: an exception there leaves the worker.
Start ==
    /\ pc = "start"
    /\ UNCHANGED shared
    /\ \E o \in SaveOutcomes :
          /\ Fault(SaveFault(o))
          /\ store' = save_state(store, job, o)
          /\ pc' = IF o = "raises" THEN "escaped" ELSE "setup"
          /\ raised' = IF o = "raises" THEN Some("save_state") ELSE raised
    /\ UNCHANGED <<job, result, files, rendered_clips, failed_manim, fb,
                   narration, narration_audio, merge, hist>>

\* Lines 123-187: imports, _get_system_prompt, GeminiClient() (raises
\* ValueError without an API key) and the topic steps, which call
\* save_state (lines 144, 173, 185) on the still queued job only for an
\* empty or a long topic.
Prepare ==
    /\ pc = "setup"
    /\ UNCHANGED shared
    /\ \/ /\ Raise("setup")
          /\ Fault(1)
          /\ store' = store
       \/ /\ pc' = "planning"
          /\ UNCHANGED <<store, raised, faults>>
       \/ \E o \in SaveOutcomes :
             /\ Fault(SaveFault(o))
             /\ Save(job, o, "planning")
    /\ UNCHANGED <<job, result, files, rendered_clips, failed_manim, fb,
                   narration, narration_audio, merge, hist>>

\* Lines 190-192.
BeginPlanning ==
    /\ pc = "planning"
    /\ UNCHANGED shared
    /\ job' = [job EXCEPT !.status = "planning"]
    /\ \E o \in SaveOutcomes :
          /\ Fault(SaveFault(o))
          /\ Save(job', o, "plan")
    /\ UNCHANGED <<result, files, rendered_clips, failed_manim, fb,
                   narration, narration_audio, merge, hist>>

\* Lines 194-224: context retrieval (only with documents; its save_state,
\* line 212, is inside a try that swallows every exception; ctx is
\* "swallowed" also when no context is retrieved),
\* agent.generate_video, job["scenes"] and the save of line 224.
Plan ==
    /\ pc = "plan"
    /\ UNCHANGED shared
    /\ \E ctx \in {"written", "swallowed"} :
          \/ /\ Raise("oracle")
             /\ Fault(1)
             /\ store' = save_state(store, job, ctx)
             /\ UNCHANGED <<job, result, hist>>
          \/ \E blocks \in PlanAnswers, code \in BOOLEAN, comp \in BOOLEAN,
                o \in SaveOutcomes :
                /\ result' = generate_video(blocks, code, comp)
                /\ code \/ result'.manim_scenes # <<>>
                /\ comp \/ result'.remotion_scenes # <<>>
                /\ Fault((IF code THEN 0 ELSE 1) + (IF comp THEN 0 ELSE 1)
                         + SaveFault(o))
                /\ job' = [job EXCEPT !.scenes = Some(JobScenes(result'.scenes))]
                /\ hist' = NewHist(Len(result'.scenes))
                /\ SaveFrom(save_state(store, job, ctx), job', o, "generating")
    /\ UNCHANGED <<files, rendered_clips, failed_manim, fb, narration,
                   narration_audio, merge>>

\* Lines 227-237: create_output_dir (mkdir may raise), the save of line 231
\* and the source files: scene.py only if manim_code is truthy, remotion/
\* only if root_tsx and comp_tsx are.
Generating ==
    /\ pc = "generating"
    /\ UNCHANGED shared
    /\ \/ /\ job' = [job EXCEPT !.status = "generating"]
          /\ Raise("output_dir")
          /\ Fault(1)
          /\ UNCHANGED <<store, files>>
       \/ /\ job' = [job EXCEPT !.status = "generating",
                                !.output_dir = Some("output_dir")]
          /\ \E o \in SaveOutcomes :
                /\ Fault(SaveFault(o))
                /\ Save(job', o, "rendering")
                /\ files' =
                     IF o = "raises" THEN files
                     ELSE [scene_py |-> result.manim_code,
                           remotion |->
                             IF result.root_tsx /\ result.comp_tsx
                             THEN save_remotion_files(
                                    default_root_ids(result.scenes,
                                                     result.remotion_scenes),
                                    SeqRange(result.remotion_scenes))
                             ELSE None]
    /\ UNCHANGED <<result, rendered_clips, failed_manim, fb, narration,
                   narration_audio, merge, hist>>

\* Lines 240-243.
BeginRendering ==
    /\ pc = "rendering"
    /\ UNCHANGED shared
    /\ job' = [job EXCEPT !.status = "rendering"]
    /\ rendered_clips' = {}
    /\ \E o \in SaveOutcomes :
          /\ Fault(SaveFault(o))
          /\ Save(job', o, "render_manim")
    /\ UNCHANGED <<result, files, failed_manim, fb, narration,
                   narration_audio, merge, hist>>

\* Lines 245-256: the Manim renders (save_state of line 247,
\* render_manim_scenes, rendered_clips.update) and, when failed_manim is
\* truthy, the save of line 256 before the fallback loop.
RenderManim ==
    /\ pc = "render_manim"
    /\ UNCHANGED shared
    /\ \/ /\ result.manim_scenes = <<>>
          /\ pc' = "render_remotion"
          /\ UNCHANGED <<store, raised, rendered_clips, failed_manim, fb,
                         hist, faults>>
       \/ /\ result.manim_scenes # <<>>
          /\ Raise("save_state")
          /\ Fault(1)
          /\ UNCHANGED <<store, rendered_clips, failed_manim, fb, hist>>
       \/ /\ result.manim_scenes # <<>>
          /\ \E o1 \in {"written", "swallowed"}, o2 \in SaveOutcomes,
                out \in [1 .. Len(result.manim_scenes) -> ManimOutcomes] :
                LET r == render_manim_scenes(result.scenes, result.manim_scenes,
                                             out, files.scene_py)
                    n == IF files.scene_py THEN ManimFaults(out) ELSE 0
                IN  /\ rendered_clips' = rendered_clips \cup r.rendered
                    /\ failed_manim' = [pairs |-> r.pairs, items |-> r.failed]
                    /\ fb' = 1
                    /\ hist' = Tried(hist, r.tried, "MANIM")
                    /\ IF r.failed = <<>>
                       THEN /\ o2 = "written"
                            /\ Fault(SaveFault(o1) + n)
                            /\ store' = save_state(store, job, o1)
                            /\ pc' = "render_remotion"
                            /\ raised' = raised
                       ELSE /\ Fault(SaveFault(o1) + n + SaveFault(o2))
                            /\ SaveFrom(save_state(store, job, o1), job, o2,
                                        "fallback")
    /\ UNCHANGED <<job, result, files, narration, narration_audio, merge>>

\* Lines 257-282, one iteration of `for failed_scene, error_text in
\* failed_manim`.  Unpacking an element that is a scene dict (eight keys)
\* into two names raises ValueError at the for statement, outside the inner
\* try.  Inside the try: generate_remotion_fallback (the oracle may raise),
\* save_remotion_files with _default_root_tsx([failed_scene]),
\* render_remotion_scenes(output_dir, [failed_scene]) (shutil.copy2 may
\* raise), rendered_clips.update and failed_scene["engine"] = "REMOTION".
Fallback ==
    /\ pc = "fallback"
    /\ UNCHANGED shared
    /\ \/ /\ ~failed_manim.pairs
          /\ Raise("unpack")
          /\ UNCHANGED <<result, files, rendered_clips, fb, hist, faults>>
       \/ /\ failed_manim.pairs
          /\ fb > Len(failed_manim.items)
          /\ pc' = "render_remotion"
          /\ UNCHANGED <<raised, result, files, rendered_clips, fb, hist,
                         faults>>
       \/ /\ failed_manim.pairs
          /\ fb <= Len(failed_manim.items)
          /\ fb' = fb + 1
          /\ UNCHANGED <<pc, raised>>
          /\ LET p == failed_manim.items[fb]
                 src == save_remotion_files({result.scenes[p].index}, {p})
             IN  \/ \* generate_remotion_fallback raises: caught, next scene
                    /\ Fault(1)
                    /\ UNCHANGED <<result, files, rendered_clips, hist>>
                 \/ \* the copy into the Remotion project raises: caught
                    /\ Fault(1)
                    /\ files' = [files EXCEPT !.remotion = src]
                    /\ hist' = [hist EXCEPT ![p].fallback = @ + 1]
                    /\ UNCHANGED <<result, rendered_clips>>
                 \/ \E project \in BOOLEAN,
                       out \in [{1} -> RemotionCan(result.scenes, p, src)] :
                       LET r == render_remotion_scenes(result.scenes, <<p>>,
                                                       out, src, project)
                       IN  /\ project \/ out[1] = "ok"
                           /\ Fault(IF project
                                    THEN RemotionFaults(result.scenes, <<p>>,
                                                        out, src)
                                    ELSE 1)
                           /\ files' = [files EXCEPT !.remotion = src]
                           /\ rendered_clips' = rendered_clips \cup r.rendered
                           /\ result' = [result EXCEPT
                                           !.scenes[p].engine = "REMOTION"]
                           /\ hist' = Tried([hist EXCEPT ![p].fallback = @ + 1],
                                            r.tried, "REMOTION")
    /\ UNCHANGED <<job, store, failed_manim, narration, narration_audio,
                   merge>>

\* Lines 284-293: the planned Remotion scenes (save_state of line 286,
\* render_remotion_scenes, rendered_clips.update) and the save of line 293.
\* Here an exception of render_remotion_scenes is not caught.
RenderRemotion ==
    /\ pc = "render_remotion"
    /\ UNCHANGED shared
    /\ \/ /\ result.remotion_scenes = <<>>
          /\ \E o \in SaveOutcomes :
                /\ Fault(SaveFault(o))
                /\ Save(job, o, "narrate")
          /\ UNCHANGED <<rendered_clips, hist>>
       \/ /\ result.remotion_scenes # <<>>
          /\ Raise("save_state")
          /\ Fault(1)
          /\ UNCHANGED <<store, rendered_clips, hist>>
       \/ /\ result.remotion_scenes # <<>>
          /\ files.remotion # None
          /\ \E o1 \in {"written", "swallowed"} :
                /\ store' = save_state(store, job, o1)
                /\ Fault(SaveFault(o1) + 1)
          /\ Raise("copy")
          /\ UNCHANGED <<rendered_clips, hist>>
       \/ /\ result.remotion_scenes # <<>>
          /\ \E o1 \in {"written", "swallowed"}, o2 \in SaveOutcomes,
                project \in BOOLEAN,
                out \in [1 .. Len(result.remotion_scenes) -> RemotionOutcomes] :
                LET rs == result.remotion_scenes
                    src == files.remotion
                    runs == src # None /\ project
                    r == render_remotion_scenes(result.scenes, rs, out, src,
                                                project)
                IN  /\ runs => \A k \in 1 .. Len(rs) :
                                  out[k] \in RemotionCan(result.scenes, rs[k], src)
                    /\ ~runs => \A k \in 1 .. Len(rs) : out[k] = "fail"
                    /\ src = None => project
                    /\ Fault(SaveFault(o1) + SaveFault(o2)
                             + (IF runs
                                THEN RemotionFaults(result.scenes, rs, out, src)
                                ELSE IF project THEN 0 ELSE 1))
                    /\ rendered_clips' = rendered_clips \cup r.rendered
                    /\ hist' = Tried(hist, r.tried, "REMOTION")
                    /\ SaveFrom(save_state(store, job, o1), job, o2, "narrate")
    /\ UNCHANGED <<job, result, files, failed_manim, fb, narration,
                   narration_audio, merge>>

\* Lines 296-313 with a narration that was not produced raised as an error.
Narrate_tts_fatal ==
    /\ pc = "narrate"
    /\ UNCHANGED shared
    /\ \E narr \in SUBSET (1 .. Len(result.scenes)) :
          LET scripts == {result.scenes[p].index : p \in narr}
          IN  /\ narration' = narr
              /\ \/ /\ scripts = {}
                    /\ pc' = "begin_merge"
                    /\ UNCHANGED <<job, store, raised, narration_audio, faults>>
                 \/ /\ scripts # {}
                    /\ job' = [job EXCEPT !.status = "tts"]
                    /\ \E spoken \in SUBSET scripts :
                          /\ Fault(IF spoken = scripts THEN 0 ELSE 1)
                          /\ store' = save_state(store, job', "written")
                          /\ narration_audio' = spoken
                          /\ IF spoken = scripts
                             THEN pc' = "begin_merge" /\ raised' = raised
                             ELSE Raise("tts")
    /\ UNCHANGED <<result, files, rendered_clips, failed_manim, fb, merge,
                   hist>>

\* Lines 296-313: narration_scripts = {index: narration} over the scenes
\* with truthy narration (narr: their positions); if it is non-empty the
\* status becomes "tts", it is saved and generate_scene_narrations runs,
\* which attempts every scene whose index is a key of narration_scripts
\* (spoken: the indices whose wav was produced); its exceptions are caught.
Narrate ==
    /\ pc = "narrate"
    /\ UNCHANGED shared
    /\ \E narr \in SUBSET (1 .. Len(result.scenes)) :
          LET scripts == {result.scenes[p].index : p \in narr}
          IN  /\ narration' = narr
              /\ \/ /\ scripts = {}
                    /\ pc' = "begin_merge"
                    /\ UNCHANGED <<job, store, raised, narration_audio, faults>>
                 \/ /\ scripts # {}
                    /\ job' = [job EXCEPT !.status = "tts"]
                    /\ \E o \in SaveOutcomes, spoken \in SUBSET scripts :
                          /\ o = "raises" => spoken = scripts
                          /\ Fault(SaveFault(o)
                                   + (IF spoken = scripts THEN 0 ELSE 1))
                          /\ Save(job', o, "begin_merge")
                          /\ narration_audio' =
                               IF o = "raises" THEN narration_audio ELSE spoken
    /\ UNCHANGED <<result, files, rendered_clips, failed_manim, fb, merge,
                   hist>>

\* Lines 316-318 with the scenes list cut down to the rendered scenes.
BeginMerging_rendered_scenes_only ==
    /\ pc = "begin_merge"
    /\ UNCHANGED shared
    /\ job' = [job EXCEPT
                  !.status = "merging",
                  !.scenes = Some(SelectSeq(job.scenes[1],
                                 LAMBDA sc : sc.index \in rendered_clips))]
    /\ \E o \in SaveOutcomes :
          /\ Fault(SaveFault(o))
          /\ Save(job', o, "merge")
    /\ UNCHANGED <<result, files, rendered_clips, failed_manim, fb, narration,
                   narration_audio, merge, hist>>

\* Lines 316-318.
BeginMerging ==
    /\ pc = "begin_merge"
    /\ UNCHANGED shared
    /\ job' = [job EXCEPT !.status = "merging"]
    /\ \E o \in SaveOutcomes :
          /\ Fault(SaveFault(o))
          /\ Save(job', o, "merge")
    /\ UNCHANGED <<result, files, rendered_clips, failed_manim, fb, narration,
                   narration_audio, merge, hist>>

\* Line 319: final_video = merge_clips(...).
Merge ==
    /\ pc = "merge"
    /\ UNCHANGED shared
    /\ LET n == Len(OrderedClips(result.scenes, rendered_clips))
       IN  \E normOk \in SUBSET (1 .. n), concatOk \in BOOLEAN :
              LET m == merge_clips(result.scenes, rendered_clips,
                                   narration_audio, normOk, concatOk)
              IN  /\ merge' = m
                  /\ Fault(IF m.concat = None /\ (m.final \/ n = 0) THEN 0
                           ELSE IF Cardinality(normOk) = n /\ concatOk THEN 0
                           ELSE 1)
    /\ pc' = "finish"
    /\ UNCHANGED <<job, store, raised, result, files, rendered_clips,
                   failed_manim, fb, narration, narration_audio, hist>>

\* Lines 322-329 with a merge_clips result of None treated as an error.
Finish_merge_fatal ==
    /\ pc = "finish"
    /\ UNCHANGED shared
    /\ \/ /\ ~merge.final
          /\ job' = job
          /\ Raise("merge")
          /\ UNCHANGED <<store, faults>>
       \/ /\ merge.final
          /\ job' = [job EXCEPT !.status = "complete",
                                !.final_video = Some("final_video.mp4")]
          /\ \E o \in SaveOutcomes :
                /\ Fault(SaveFault(o))
                /\ Save(job', o, "done")
    /\ UNCHANGED <<result, files, rendered_clips, failed_manim, fb, narration,
                   narration_audio, merge, hist>>

\* Lines 322-329: status "complete" is assigned first; then, with a final
\* video, job["final_video"] and final_video.stat() (which may raise), and
\* the save of line 329.
Finish ==
    /\ pc = "finish"
    /\ UNCHANGED shared
    /\ \/ /\ merge.final
          /\ job' = [job EXCEPT !.status = "complete",
                                !.final_video = Some("final_video.mp4")]
          /\ Raise("stat")
          /\ Fault(1)
          /\ store' = store
       \/ /\ job' = [job EXCEPT !.status = "complete",
                                !.final_video =
                                   IF merge.final THEN Some("final_video.mp4")
                                   ELSE None]
          /\ \E o \in SaveOutcomes :
                /\ Fault(SaveFault(o))
                /\ Save(job', o, "done")
    /\ UNCHANGED <<result, files, rendered_clips, failed_manim, fb, narration,
                   narration_audio, merge, hist>>

\* The except clause without line 333 (job["error"] = str(e)).
Handler_without_error ==
    /\ pc = "except"
    /\ UNCHANGED shared
    /\ job' = [job EXCEPT !.status = "failed"]
    /\ \E o \in SaveOutcomes :
          /\ Fault(SaveFault(o))
          /\ store' = save_state(store, job', o)
          /\ pc' = IF o = "raises" THEN "escaped" ELSE "done"
    /\ UNCHANGED <<raised, result, files, rendered_clips, failed_manim, fb,
                   narration, narration_audio, merge, hist>>

\* Lines 331-336: the except clause; its save_state is not guarded, so an
\* exception there leaves the worker.
Handler ==
    /\ pc = "except"
    /\ UNCHANGED shared
    /\ job' = [job EXCEPT !.status = "failed", !.error = raised]
    /\ \E o \in SaveOutcomes :
          /\ Fault(SaveFault(o))
          /\ store' = save_state(store, job', o)
          /\ pc' = IF o = "raises" THEN "escaped" ELSE "done"
    /\ UNCHANGED <<raised, result, files, rendered_clips, failed_manim, fb,
                   narration, narration_audio, merge, hist>>

Next ==
    \/ Start
    \/ Prepare
    \/ BeginPlanning
    \/ Plan
    \/ Generating
    \/ BeginRendering
    \/ RenderManim
    \/ Fallback
    \/ RenderRemotion
    \/ Narrate
    \/ BeginMerging
    \/ Merge
    \/ Finish
    \/ Handler

Spec == Init /\ [][Next]_vars

\* The worker thread keeps running: every external call returns or raises,
\* so a step that is possible is eventually taken.
LiveSpec == Init /\ [][Next]_vars /\ WF_vars(Next)

----------------------------------------------------------------------------
(* output_manager.py: the output directories of several jobs *)

\* The characters of a topic: an upper-case and two lower-case letters, a
\* punctuation mark and a blank.
Chars == {"A", "a", "b", "!", " "}

Topics == UNION {[1 .. n -> Chars] : n \in 1 .. MaxTopicLen}

Jobs == 1 .. MaxJobs

\* slugify's default max_length.
max_length == 40

\* str.lower()
Lower(text) == [k \in DOMAIN text |-> IF text[k] = "A" THEN "a" ELSE text[k]]

\* re.sub(r"[^\w\s-]", "", text): only word characters, whitespace and
\* hyphens stay.
Kept(text) == SelectSeq(text, LAMBDA c : c \in {"a", "b", " ", "_", "-"})

\* text without its leading whitespace and underscores.
RECURSIVE SkipBlanks(_)
SkipBlanks(text) ==
    IF text # <<>> /\ Head(text) \in {" ", "_"} THEN SkipBlanks(Tail(text))
    ELSE text

\* re.sub(r"[\s_]+", "-", text): every run of whitespace and underscores
\* becomes one hyphen.
RECURSIVE Hyphenated(_)
Hyphenated(text) ==
    IF text = <<>> THEN <<>>
    ELSE IF Head(text) \in {" ", "_"}
         THEN <<"-">> \o Hyphenated(SkipBlanks(text))
         ELSE <<Head(text)>> \o Hyphenated(Tail(text))

\* str.strip("-")
RECURSIVE Strip(_)
Strip(text) ==
    IF text = <<>> THEN <<>>
    ELSE IF Head(text) = "-" THEN Strip(Tail(text))
    ELSE IF text[Len(text)] = "-" THEN Strip(SubSeq(text, 1, Len(text) - 1))
    ELSE text

\* slugify(text), lines 29-33.
slugify(text) ==
    LET slug == Strip(Hyphenated(Kept(Lower(text))))
    IN  SubSeq(slug, 1, IF Len(slug) < max_length THEN Len(slug) ELSE max_length)

\* create_output_dir(topic) called within the given minute: the path
\* base_dir / f"{timestamp}_{slugify(topic)}", timestamp = %Y-%m-%d_%H%M;
\* mkdir(parents=True, exist_ok=True) accepts a directory that exists.
create_output_dir(topic, minute) == <<minute, slugify(topic)>>

\* Several jobs, none of which has created its directory; the worker of
\* the single job stays at its start.
DirInit ==
    /\ WorkerInit
    /\ clock = 0
    /\ output_dirs = [j \in Jobs |-> None]
    /\ ProjectIdle
    /\ PromptIdle

\* A minute of the wall clock passes.
Tick ==
    /\ clock < MaxMinute
    /\ clock' = clock + 1
    /\ UNCHANGED <<output_dirs, worker, remotion_project, prompt_cache>>

\* The worker of one more job, started with some topic, reaches line 229.
CreateOutputDir ==
    /\ \E j \in Jobs, topic \in Topics :
          /\ output_dirs[j] = None
          /\ output_dirs' =
               [output_dirs EXCEPT
                  ![j] = Some([topic |-> topic,
                               output_dir |-> create_output_dir(topic, clock)])]
    /\ UNCHANGED <<clock, worker, remotion_project, prompt_cache>>

DirNext ==
    \/ Tick
    \/ CreateOutputDir

DirSpec == DirInit /\ [][DirNext]_vars

----------------------------------------------------------------------------
(* output_manager.py: the Remotion project shared by all jobs *)

\* The *.tsx files save_remotion_files writes into a job's remotion/.
TsxFiles == {"root", "comp"}

\* A job that has not called render_remotion_scenes.
IdleRenderer ==
    [pc |-> "idle", copied |-> {}, content |-> None, left |-> 0,
     saw |-> None]

RemotionInit ==
    /\ WorkerInit
    /\ clock = 0
    /\ output_dirs = <<>>
    /\ project_src = [root |-> None, comp |-> None]
    /\ renderers = [j \in Jobs |-> IdleRenderer]
    /\ PromptIdle

\* What a step of render_remotion_scenes leaves alone.
RendererFrame == UNCHANGED <<worker, directories, prompt_cache>>

\* Job j calls render_remotion_scenes with n scenes; its remotion/ and
\* REMOTION_PROJECT exist.
CallRender(j) ==
    /\ renderers[j].pc = "idle"
    /\ \E n \in 1 .. MaxScenes :
        renderers' = [renderers EXCEPT ![j].pc = "copy", ![j].left = n]
    /\ UNCHANGED project_src
    /\ RendererFrame

\* shutil.copy2(tsx_file, project_src / tsx_file.name): one file of the
\* glob, in the order the file system lists them.
CopyTsx(j) ==
    /\ renderers[j].pc = "copy"
    /\ \E f \in TsxFiles \ renderers[j].copied :
        /\ project_src' = [project_src EXCEPT ![f] = Some(j)]
        /\ renderers' = [renderers EXCEPT ![j].copied = @ \cup {f}]
    /\ RendererFrame

\* content = root_tsx.read_text(): Root.tsx as the project holds it now.
ReadRoot(j) ==
    /\ renderers[j].pc = "copy"
    /\ renderers[j].copied = TsxFiles
    /\ renderers' = [renderers EXCEPT ![j].pc = "patch",
                                      ![j].content = project_src.root]
    /\ UNCHANGED project_src
    /\ RendererFrame

\* root_tsx.write_text(content) when the export name was patched, nothing
\* when it needed no patch.
PatchRoot(j) ==
    /\ renderers[j].pc = "patch"
    /\ \E patched \in BOOLEAN :
        project_src' = IF patched
                       THEN [project_src EXCEPT !.root = renderers[j].content]
                       ELSE project_src
    /\ renderers' = [renderers EXCEPT ![j].pc = "render", ![j].content = None]
    /\ RendererFrame

\* The isolated variant: the subprocess runs in a project of the job's own.
RenderScene_isolated(j) ==
    /\ renderers[j].pc = "render"
    /\ renderers[j].left > 0
    /\ renderers' = [renderers EXCEPT
            ![j].saw = Some([root |-> Some(j), comp |-> Some(j)]),
            ![j].left = @ - 1]
    /\ UNCHANGED project_src
    /\ RendererFrame

\* subprocess.run(["npx", "remotion", "render", comp_id, clip_path],
\* cwd=REMOTION_PROJECT): the subprocess bundles what the project holds.
RenderScene(j) ==
    /\ renderers[j].pc = "render"
    /\ renderers[j].left > 0
    /\ renderers' = [renderers EXCEPT ![j].saw = Some(project_src),
                                      ![j].left = @ - 1]
    /\ UNCHANGED project_src
    /\ RendererFrame

\* return rendered
ReturnRendered(j) ==
    /\ renderers[j].pc = "render"
    /\ renderers[j].left = 0
    /\ renderers' = [renderers EXCEPT ![j].pc = "done"]
    /\ UNCHANGED project_src
    /\ RendererFrame

RemotionNext ==
    \/ \E j \in Jobs : CallRender(j)
    \/ \E j \in Jobs : CopyTsx(j)
    \/ \E j \in Jobs : ReadRoot(j)
    \/ \E j \in Jobs : PatchRoot(j)
    \/ \E j \in Jobs : RenderScene(j)
    \/ \E j \in Jobs : ReturnRendered(j)

RemotionSpec == RemotionInit /\ [][RemotionNext]_vars

----------------------------------------------------------------------------
(* router.py: the cached system prompt *)

\* The worker threads that call _get_system_prompt, one per job.
Threads == Jobs

\* A thread that has not called _get_system_prompt.
IdleCaller == [pc |-> "idle", built |-> FALSE, got |-> None]

PromptInit ==
    /\ WorkerInit
    /\ clock = 0
    /\ output_dirs = <<>>
    /\ ProjectIdle
    /\ system_prompt = None
    /\ lock = None
    /\ callers = [t \in Threads |-> IdleCaller]

\* What a step of _get_system_prompt leaves alone.
CallerFrame == UNCHANGED <<worker, directories, remotion_project>>

\* Line 137 of a worker: system_prompt = _get_system_prompt(); a thread
\* whose job has ended runs the worker of a later job.
CallGetSystemPrompt(t) ==
    /\ callers[t].pc \in {"idle", "done", "raised"}
    /\ callers' = [callers EXCEPT ![t].pc = "check"]
    /\ UNCHANGED <<system_prompt, lock>>
    /\ CallerFrame

\* Line 82: if _system_prompt is None, outside the lock.
CheckPrompt(t) ==
    /\ callers[t].pc = "check"
    /\ callers' = [callers EXCEPT
            ![t].pc = IF system_prompt = None THEN "acquire" ELSE "return"]
    /\ UNCHANGED <<system_prompt, lock>>
    /\ CallerFrame

\* Line 83: with _lock, which blocks while another thread holds it.
AcquireLock(t) ==
    /\ callers[t].pc = "acquire"
    /\ lock = None
    /\ lock' = Some(t)
    /\ callers' = [callers EXCEPT ![t].pc = "recheck"]
    /\ UNCHANGED system_prompt
    /\ CallerFrame

\* The single-checked variant: no second test under the lock.
RecheckPrompt_always_builds(t) ==
    /\ callers[t].pc = "recheck"
    /\ callers' = [callers EXCEPT ![t].pc = "build"]
    /\ UNCHANGED <<system_prompt, lock>>
    /\ CallerFrame

\* Line 84: if _system_prompt is None, under the lock.
RecheckPrompt(t) ==
    /\ callers[t].pc = "recheck"
    /\ callers' = [callers EXCEPT
            ![t].pc = IF system_prompt = None THEN "build" ELSE "release"]
    /\ UNCHANGED <<system_prompt, lock>>
    /\ CallerFrame

\* An exception inside the with block: the lock is released and the
\* exception reaches the worker, the cache is left as it was.
RaiseInLock(t) ==
    /\ lock' = None
    /\ callers' = [callers EXCEPT ![t].pc = "raised"]
    /\ UNCHANGED system_prompt

\* Line 90: manim_knowledge = load_manim_knowledge(SKILLS_DIR).
LoadManimKnowledge(t) ==
    /\ callers[t].pc = "build"
    /\ \/ /\ callers' = [callers EXCEPT ![t].pc = "load_remotion"]
          /\ UNCHANGED <<system_prompt, lock>>
       \/ RaiseInLock(t)
    /\ CallerFrame

\* Line 91: remotion_knowledge = load_remotion_knowledge(REMOTION_PROMPT).
LoadRemotionKnowledge(t) ==
    /\ callers[t].pc = "load_remotion"
    /\ \/ /\ callers' = [callers EXCEPT ![t].pc = "assign"]
          /\ UNCHANGED <<system_prompt, lock>>
       \/ RaiseInLock(t)
    /\ CallerFrame

\* Line 92: _system_prompt = build_system_prompt(manim_knowledge,
\* remotion_knowledge).
BuildPrompt(t) ==
    /\ callers[t].pc = "assign"
    /\ system_prompt' = Some(t)
    /\ callers' = [callers EXCEPT ![t].pc = "release", ![t].built = TRUE]
    /\ UNCHANGED lock
    /\ CallerFrame

\* The end of the with block.
ReleaseLock(t) ==
    /\ callers[t].pc = "release"
    /\ lock' = None
    /\ callers' = [callers EXCEPT ![t].pc = "return"]
    /\ UNCHANGED system_prompt
    /\ CallerFrame

\* Line 93: return _system_prompt.
ReturnPrompt(t) ==
    /\ callers[t].pc = "return"
    /\ callers' = [callers EXCEPT ![t].pc = "done", ![t].got = system_prompt]
    /\ UNCHANGED <<system_prompt, lock>>
    /\ CallerFrame

PromptNext ==
    \/ \E t \in Threads : CallGetSystemPrompt(t)
    \/ \E t \in Threads : CheckPrompt(t)
    \/ \E t \in Threads : AcquireLock(t)
    \/ \E t \in Threads : RecheckPrompt(t)
    \/ \E t \in Threads : LoadManimKnowledge(t)
    \/ \E t \in Threads : LoadRemotionKnowledge(t)
    \/ \E t \in Threads : BuildPrompt(t)
    \/ \E t \in Threads : ReleaseLock(t)
    \/ \E t \in Threads : ReturnPrompt(t)

PromptSpec == PromptInit /\ [][PromptNext]_vars

----------------------------------------------------------------------------
(* Properties of the job's status *)

Terminal == {"complete", "failed"}

StatusOf(st) == IF st = None THEN "none" ELSE st[1].status

\* The order queued < planning < generating < rendering < tts < merging <
\* complete.
Rank(status) ==
    CASE status = "queued" -> 0
      [] status = "planning" -> 1
      [] status = "generating" -> 2
      [] status = "rendering" -> 3
      [] status = "tts" -> 4
      [] status = "merging" -> 5
      [] status = "complete" -> 6
      [] OTHER -> 7

\* The worker has returned (or an exception has left it).
Ended == pc \in {"done", "escaped"}

\* The plan's scenes carry pairwise distinct header numbers.
DistinctIndices ==
    \A p, q \in DOMAIN result.scenes :
        p # q => result.scenes[p].index # result.scenes[q].index

\* C1: once the status of the job is complete or failed, no later step
\* changes it, neither in the worker's job dict nor in the stored row.
C1_TerminalStatusChanges ==
    [][/\ job.status \in Terminal => job'.status = job.status
       /\ StatusOf(store) \in Terminal => StatusOf(store') = StatusOf(store)]_vars

\* C2: every change of the job's status goes forward in the order queued <
\* planning < generating < rendering < tts < merging < complete, or from a
\* non-terminal status directly to failed.
C2_StatusGoesBackward ==
    [][job'.status # job.status =>
          \/ /\ job'.status # "failed"
             /\ job.status # "failed"
             /\ Rank(job.status) < Rank(job'.status)
          \/ /\ job'.status = "failed"
             /\ job.status \notin Terminal]_vars

\* C3: a job whose scenes all were attempted and that ends without any
\* rendered clip ends failed with an error, never complete.
C3_CompleteWithoutClips ==
    (/\ Ended
     /\ DistinctIndices
     /\ hist # <<>>
     /\ \A p \in DOMAIN hist : hist[p].manim + hist[p].remotion > 0
     /\ rendered_clips = {})
        => (job.status = "failed" /\ job.error # None)

\* C4: a plan that yields no scene makes the job fail with its scenes
\* empty; the job never is in generating, rendering or merging with an
\* empty scene list.
C4_EmptyPlanProceeds ==
    (job.scenes = Some(<<>>))
        => /\ job.status \notin {"generating", "rendering", "merging"}
           /\ Ended => job.status = "failed"

\* The scene at position p was planned for Remotion, its sources are in the
\* job's remotion/ directory as generated, and no render of it was tried.
Renderable(p) ==
    /\ job.scenes[1][p].engine = "REMOTION"
    /\ files.remotion # None
    /\ Registered(result.scenes, p, files.remotion)
    /\ hist[p].remotion = 0

\* C5: the failure of one scene's rendering (here: scene.py is missing) does
\* not make the job fail while another scene of the plan can be rendered;
\* the job reaches complete with error null.
C5_RenderFailureFatal ==
    (/\ Ended
     /\ DistinctIndices
     /\ raised = Some("unpack")
     /\ \E p \in DOMAIN hist : Renderable(p))
        => (job.status = "complete" /\ job.error = None)

\* C6: every scene gets at most two render subprocess attempts, at most one
\* with Manim and at most one with Remotion, and a scene planned as REMOTION
\* at most one.
C6_ThreeAttempts ==
    \A p \in DOMAIN hist :
        /\ hist[p].manim + hist[p].remotion <= 2
        /\ hist[p].manim <= 1
        /\ hist[p].remotion <= 1
        /\ job.scenes[1][p].engine = "REMOTION" => hist[p].manim = 0

\* C7: the fallback runs at most once per scene and only for a scene whose
\* Manim render did not succeed; the engine of a scene never changes from
\* REMOTION to MANIM and no Manim attempt follows a Remotion attempt.
C7_FallbackForRenderedScene ==
    [][\A p \in DOMAIN hist :
          (p \in DOMAIN hist' /\ DistinctIndices) =>
             /\ hist'[p].fallback > hist[p].fallback =>
                   /\ hist[p].fallback = 0
                   /\ ~hist[p].manim_ok
                   /\ job.scenes[1][p].engine = "MANIM"
             /\ result.scenes[p].engine = "REMOTION" =>
                   result'.scenes[p].engine = "REMOTION"
             /\ hist[p].remotion > 0 => hist'[p].manim = hist[p].manim]_vars

\* The scene at position p failed its Manim render and its one fallback
\* render succeeded.
FellBack(p) ==
    /\ job.scenes[1][p].engine = "MANIM"
    /\ hist[p].manim = 1 /\ ~hist[p].manim_ok
    /\ hist[p].fallback = 1
    /\ hist[p].remotion = 1 /\ hist[p].remotion_ok

\* The scene at position p was rendered by the engine of the plan.
RenderedAsPlanned(p) ==
    /\ hist[p].fallback = 0
    /\ \/ job.scenes[1][p].engine = "MANIM" /\ hist[p].manim_ok
       \/ job.scenes[1][p].engine = "REMOTION" /\ hist[p].remotion_ok

\* C8: when exactly one Manim scene fails its primary render and its
\* fallback succeeds, every other scene is rendered as planned and nothing
\* else goes wrong, the job ends complete with a clip for every scene and
\* its scenes list reports the engine of that scene as REMOTION.
C8_EngineNotReported ==
    \A p \in DOMAIN hist :
        (/\ Ended
         /\ DistinctIndices
         /\ faults = 1
         /\ FellBack(p)
         /\ \A q \in DOMAIN hist \ {p} : RenderedAsPlanned(q))
        => /\ job.status = "complete"
           /\ \A q \in DOMAIN hist : result.scenes[q].index \in rendered_clips
           /\ job.scenes[1][p].engine = "REMOTION"

\* C9: merge_clips takes a clip for a scene only if a render of that scene
\* itself succeeded, and takes no clip twice.
C9_ForeignOrRepeatedClip ==
    \A k \in DOMAIN merge.ordered :
        DistinctIndices =>
        /\ hist[merge.ordered[k]].manim_ok \/ hist[merge.ordered[k]].remotion_ok
        /\ \A j \in DOMAIN merge.ordered :
              j # k => result.scenes[merge.ordered[j]].index
                         # result.scenes[merge.ordered[k]].index

\* C10: the clips in the concat list are in strictly ascending order of
\* scene index.
C10_ConcatNotAscending ==
    merge.concat # None =>
        \A k \in 1 .. Len(merge.concat[1]) - 1 :
            result.scenes[merge.concat[1][k]].index
                < result.scenes[merge.concat[1][k + 1]].index

----------------------------------------------------------------------------
(* Properties of the job record *)

\* C11: in the worker's record and in every stored record, final_video is
\* non-null only if the status is complete.
C11_FinalVideoOnlyWhenComplete ==
    /\ job.final_video # None => job.status = "complete"
    /\ store # None =>
          (store[1].final_video # None => store[1].status = "complete")

\* The record carries an error exactly when its status is failed.
ErrorIffFailed(r) == r.error # None <=> r.status = "failed"

\* C12: in the worker's record and in every stored record, error is
\* non-null exactly when the status is failed, and an error, once written,
\* is never written again.
C12_ErrorIffFailed ==
    /\ [](ErrorIffFailed(job) /\ (store # None => ErrorIffFailed(store[1])))
    /\ [][job.error # None => job'.error = job.error]_vars
    /\ [][(store # None /\ store[1].error # None) =>
              store'[1].error = store[1].error]_vars

C12_Witness ==
    /\ pc = "done"
    /\ job.status = "failed" /\ job.error = Some("oracle")
    /\ store # None /\ store[1].status = "failed"
    /\ store[1].error = Some("oracle")

\* merge_clips ran on at least one rendered clip and returned None.
MergeFailed == merge.ordered # <<>> /\ ~merge.final

Silent(p) ==
    p \in narration /\ result.scenes[p].index \notin narration_audio

\* C14: the narration step goes on to merging unless its save_state raises,
\* whatever narrations were not produced, and never sets the job to failed;
\* merge_clips then takes every rendered scene, with or without narration
\* audio.
C14_NarrationFailureNotFatal ==
    /\ [][(pc = "narrate" /\ raised' # Some("save_state")) =>
              (pc' = "begin_merge" /\ job'.status # "failed")]_vars
    /\ [](job.status = "failed" => raised # Some("tts"))
    /\ [](pc = "finish" =>
             \A p \in DOMAIN result.scenes :
                 result.scenes[p].index \in rendered_clips =>
                    \E k \in DOMAIN merge.ordered : merge.ordered[k] = p)

C14_Witness ==
    /\ pc = "finish"
    /\ job.status = "merging"
    /\ \E k \in DOMAIN merge.ordered : Silent(merge.ordered[k])

----------------------------------------------------------------------------
(* Properties of the job store *)

\* C15: a status the worker assigned is in the store before the worker
\* assigns the next one.
C15_StatusStoredBeforeNext ==
    [][job'.status # job.status => StatusOf(store) = job.status]_vars

\* C16: once the plan has been saved, a status query returns the scenes of
\* the worker's record.
C16_QueryReturnsScenes ==
    (/\ job.scenes # None
     /\ job.scenes # Some(<<>>)
     /\ store = Some(Row(job)))
        => get_status(store)[1].scenes = job.scenes

\* The positions at which the worker's next step calls save_state(job)
\* inside the try block.
SavingSteps == {"planning", "generating", "rendering", "begin_merge", "finish"}

\* C17: when a write of the job record fails, the worker does not go on to
\* the next stage: it goes to the except clause.
C17_WriteFailureAborts ==
    [][(pc \in SavingSteps) =>
          (store' = Some(Row(job')) \/ pc' = "except")]_vars

\* C18: no exception leaves _run_generation.
C18_NoExceptionEscapes == pc # "escaped"

\* C19: a status query issued after the POST response finds the job.
C19_QueryFindsJob == get_status(store) # None

----------------------------------------------------------------------------
(* Properties of the output directories *)

\* C20: two distinct jobs never get the same output directory.
C20_DistinctOutputDirs ==
    \A a, b \in Jobs :
        (a # b /\ output_dirs[a] # None /\ output_dirs[b] # None)
            => output_dirs[a][1].output_dir # output_dirs[b][1].output_dir

----------------------------------------------------------------------------
(* Concurrent jobs in the shared Remotion project *)

\* C21: nothing isolates or locks the shared Remotion project: a job may
\* copy its Root.tsx/MyComp.tsx into it whatever the other jobs are doing,
\* and every render subprocess runs against the files the shared project
\* holds at that moment, whichever job copied them.
C21_RendersAgainstSharedProject ==
    /\ [](\A j \in Jobs :
            (renderers[j].pc = "copy" /\ renderers[j].copied # TsxFiles)
                => ENABLED CopyTsx(j))
    /\ [][(\A j \in Jobs :
            (renderers[j].pc = "render" /\ renderers'[j].left < renderers[j].left)
                => renderers'[j].saw = Some(project_src))]_vars

\* Two jobs render concurrently and one's subprocess has run against the
\* Root.tsx or MyComp.tsx the other copied.
C21_Witness ==
    \E j \in Jobs : \E k \in Jobs \ {j} :
        /\ renderers[j].pc \in {"render", "done"}
        /\ renderers[k].pc \in {"copy", "patch", "render"}
        /\ renderers[j].saw # None
        /\ \E f \in TsxFiles : renderers[j].saw[1][f] = Some(k)

----------------------------------------------------------------------------
(* The job whose renders and merge all succeed *)

\* The clips merge_clips put into the final video: the lines of concat.txt,
\* or the one clip it copied.
Merged == IF merge.concat # None THEN merge.concat[1] ELSE merge.ordered

\* Every scene of a non-empty plan was rendered by its planned engine and
\* merge_clips normalized every clip and returned the final video.
AllSucceeded ==
    /\ job.scenes # None
    /\ Len(result.scenes) >= 1
    /\ DOMAIN hist = DOMAIN result.scenes
    /\ \A p \in DOMAIN hist : RenderedAsPlanned(p)
    /\ merge.final
    /\ Len(Merged) = Len(merge.ordered)

\* C22: when planning yields at least one scene, every scene's primary
\* render succeeds and the merge succeeds, the job ends complete with a
\* final video and no error, and the final video holds exactly one clip per
\* planned scene.
C22_HappyPathCompletes ==
    (Ended /\ AllSucceeded)
        => /\ job.status = "complete"
           /\ job.final_video # None
           /\ job.error = None
           /\ Len(Merged) = Len(result.scenes)
           /\ \A j, k \in DOMAIN Merged :
                 j # k => result.scenes[Merged[j]].index
                            # result.scenes[Merged[k]].index

----------------------------------------------------------------------------
(* The job's scenes list *)

\* The steps of the worker between the plan and the end of the try block.
AfterPlanning ==
    {"generating", "rendering", "render_manim", "fallback", "render_remotion",
     "narrate", "begin_merge", "merge", "finish"}

\* C23: the job's scenes list is assigned once, by the step that completes
\* planning, as the copy of the plan's scenes; it is set in every later step
\* and neither rendering, fallback, narration nor merging changes its
\* length.
C23_ScenesAssignedOnce ==
    /\ [](pc \in AfterPlanning => job.scenes # None)
    /\ [][(job'.scenes # job.scenes)
            => /\ pc = "plan"
               /\ job.scenes = None
               /\ job'.scenes = Some(JobScenes(result'.scenes))]_vars
    /\ [][(job.scenes # None)
            => /\ job'.scenes # None
               /\ Len(job'.scenes[1]) = Len(job.scenes[1])]_vars

\* The job has been merged after a scene failed every render, and its scenes
\* list still has an entry for that scene.
C23_Witness ==
    /\ pc \in {"finish", "done"}
    /\ job.scenes # None
    /\ Len(job.scenes[1]) = Len(result.scenes)
    /\ \E p \in DOMAIN result.scenes :
          result.scenes[p].index \notin rendered_clips

----------------------------------------------------------------------------
(* What the renderers return *)

\* How many entries of the failed list are the scene at position p.
TimesFailed(p) ==
    Cardinality({k \in DOMAIN failed_manim.items : failed_manim.items[k] = p})

\* C24: when render_manim_scenes has run its loop and returned, every scene
\* of its input list is either rendered and not in the failed list, or not
\* rendered and in the failed list exactly once, whatever the order of the
\* scene indices and also after a FileNotFoundError cut the loop short.
C24_RenderedOrFailedOnce ==
    (pc = "fallback" /\ failed_manim.pairs /\ DistinctIndices)
        => \A k \in DOMAIN result.manim_scenes :
              LET p == result.manim_scenes[k]
              IN  \/ hist[p].manim_ok /\ TimesFailed(p) = 0
                  \/ ~hist[p].manim_ok /\ TimesFailed(p) = 1

\* C25: a scene is a key of rendered_clips only if a render subprocess of
\* that scene itself exited with code 0 and produced its output file; a
\* run that exits non-zero is a failure even when a file lies at the
\* toolchain's default output location.
C25_RenderedOnlyByOwnRun ==
    DistinctIndices =>
        \A p \in DOMAIN hist :
            result.scenes[p].index \in rendered_clips
                => hist[p].manim_ok \/ hist[p].remotion_ok

----------------------------------------------------------------------------
(* The source files of the planned Remotion scenes *)

\* C26: when render_remotion_scenes is about to be invoked for the plan's
\* REMOTION scenes, whose Root.tsx and MyComp.tsx were generated and saved,
\* the job's remotion/Root.tsx registers the composition id of every one of
\* them and MyComp.tsx holds their components, whether or not a fallback
\* ran before.
C26_PlannedSourcesKept ==
    (/\ pc = "render_remotion"
     /\ DistinctIndices
     /\ result.remotion_scenes # <<>>
     /\ result.root_tsx /\ result.comp_tsx
     /\ files.remotion # None)
        => \A k \in DOMAIN result.remotion_scenes :
              Registered(result.scenes, result.remotion_scenes[k],
                         files.remotion)

----------------------------------------------------------------------------
(* Narration *)

\* The keys of narration_scripts: the indices of the scenes with a truthy
\* narration.
narration_scripts == {result.scenes[p].index : p \in narration}

\* The scenes generate_scene_narrations calls generate_narration for: the
\* loop skips a scene when narration_scripts.get(scene["index"], "") is
\* falsy.
Attempted ==
    {p \in DOMAIN result.scenes : result.scenes[p].index \in narration_scripts}

\* C27: when the job's status is merging, narration synthesis has been
\* attempted for exactly the scenes with a non-empty narration, and the
\* status tts is entered only with at least one such scene.
C27_AttemptedIffNarration ==
    /\ job.status = "tts" => narration # {}
    /\ job.status = "merging" => Attempted = narration

----------------------------------------------------------------------------
(* The indices of the parsed scenes *)

\* C28: the scenes parse_scene_plan returned have pairwise distinct
\* indices, each at least 1: a header that repeats an earlier scene's number
\* or whose number is out of range yields no scene.
C28_IndicesDistinctAndInRange ==
    /\ DistinctIndices
    /\ \A p \in DOMAIN result.scenes : result.scenes[p].index >= 1

----------------------------------------------------------------------------
(* The cached system prompt under concurrent callers *)

\* The threads that built and assigned the system prompt.
Builders == {t \in Threads : callers[t].built}

\* C29: under every interleaving of concurrent _get_system_prompt calls the
\* prompt is built and assigned by at most one caller, every caller that
\* returns gets that one value, and the cached value never changes once it
\* is set.
C29_PromptBuiltOnce ==
    /\ [](Cardinality(Builders) <= 1)
    /\ [](\A t \in Threads :
            callers[t].pc = "done"
                => callers[t].got # None /\ callers[t].got = system_prompt)
    /\ [][(system_prompt # None) => system_prompt' = system_prompt]_vars

\* Two callers both found the cache empty at the unlocked test; one built
\* the prompt and the other, after waiting for the lock, returned the value
\* the first one built.
C29_Witness ==
    \E t \in Threads : \E u \in Threads \ {t} :
        /\ callers[t].built
        /\ callers[u].pc = "done"
        /\ ~callers[u].built
        /\ callers[u].got = Some(t)
        /\ callers[t].pc \in {"release", "return", "done"}

----------------------------------------------------------------------------
(* Termination *)

\* C30: every job whose worker starts eventually has status complete or
\* failed in the job store, given that every external call returns or
\* raises.
C30_EventuallyTerminalInStore == <>(StatusOf(store) \in Terminal)

====
